---- MODULE Spec2Model ----
(***************************************************************************)
(* Model of src/main.js: the CacheManagement class (add, #sort, search),   *)
(* the coordinator `search` with `fetchData`, `fillOptions`,               *)
(* `enableBtnShowModal`, and the `debounce` wrapper with its two uses.     *)
(*                                                                         *)
(* Strings are sequences of UTF-16 code units (naturals).  A value held by *)
(* the cache is a record [t, s]: t is the JavaScript type of the value     *)
(* ("str" or "num"), s is String(value) as code units.  The Set of the     *)
(* cache is a duplicate-free sequence in insertion (iteration) order.      *)
(*                                                                         *)
(* Time is discrete; a timer set by setTimeout runs its callback when its  *)
(* delay has elapsed, before any later event is dispatched.                *)
(***************************************************************************)
EXTENDS Integers, Sequences, FiniteSets, TLC

VARIABLES
  inputValue,     \* input#search .value (raw text, untrimmed)
  cache,          \* cache.set, in iteration order
  options,        \* the values of the <option>s of #lang_sel, in order
  errorMessage,   \* .error-message textContent
  btnDisabled,    \* .btn-showmodal disabled
  selectedOption, \* what enableBtnShowModal last found (<<>> when nothing)
  timeout,        \* per debounced wrapper: its closure's timer
  inflight,       \* the suspended executions of search awaiting fetchData
  burst,          \* per wrapper: history of the current burst of invocations
  events,         \* history: the number of events of the user so far
  everAdded,      \* history: every value ever iterated by cache.add
  mergedFor,      \* history: the queries whose fetched result was merged
  step            \* history: what the last step did

vars == << inputValue, cache, options, errorMessage, btnDisabled,
           selectedOption, timeout, inflight, burst, events, everAdded,
           mergedFor, step >>

-----------------------------------------------------------------------------
(* Bounds of the model *)

\* The number of events of the user (keys released, changes of the text).
MaxEvents == 3

\* The longest JSON array the server answers with.
MaxRespLen == 2

-----------------------------------------------------------------------------
(* Code units and strings *)

\* String.prototype.trim: the white space and line terminator code units.
WhiteSpace == {9, 10, 11, 12, 13, 32, 160, 5760, 8232, 8233, 8239, 8287, 12288, 65279}
                 \cup (8192..8202)

RECURSIVE trimStart(_)
trimStart(s) ==
  IF s # <<>> /\ Head(s) \in WhiteSpace THEN trimStart(Tail(s)) ELSE s

RECURSIVE trimEnd(_)
trimEnd(s) ==
  IF s # <<>> /\ s[Len(s)] \in WhiteSpace
    THEN trimEnd(SubSeq(s, 1, Len(s) - 1))
    ELSE s

trim(s) == trimEnd(trimStart(s))

\* String.prototype.toLowerCase on the code units of the model (ASCII).
toLowerCase(s) ==
  [i \in DOMAIN s |-> IF s[i] >= 65 /\ s[i] <= 90 THEN s[i] + 32 ELSE s[i]]

startsWith(s, p) ==
  Len(p) <= Len(s) /\ SubSeq(s, 1, Len(p)) = p

\* The default comparison of Array.prototype.sort: code unit order of the
\* strings, a proper prefix first.
RECURSIVE StrLess(_, _)
StrLess(a, b) ==
  IF b = <<>> THEN FALSE
  ELSE IF a = <<>> THEN TRUE
  ELSE IF Head(a) # Head(b) THEN Head(a) < Head(b)
  ELSE StrLess(Tail(a), Tail(b))

Str(s) == [t |-> "str", s |-> s]

Num(s) == [t |-> "num", s |-> s]

-----------------------------------------------------------------------------
(* class CacheManagement *)

Range(q) == {q[i] : i \in DOMAIN q}

\* new Set(iterable): the first occurrence of each value, in order.
RECURSIVE NewSet(_)
NewSet(arr) ==
  IF arr = <<>> THEN <<>>
  ELSE LET init == NewSet(SubSeq(arr, 1, Len(arr) - 1))
           x    == arr[Len(arr)]
       IN  IF x \in Range(init) THEN init ELSE Append(init, x)

\* Insert x in a sorted array after every element not greater than it.
RECURSIVE Insert(_, _)
Insert(sorted, x) ==
  IF sorted = <<>> THEN << x >>
  ELSE IF StrLess(x.s, Head(sorted).s) THEN << x >> \o sorted
  ELSE << Head(sorted) >> \o Insert(Tail(sorted), x)

\* Array.prototype.sort() without a comparator (stable, by String(x)).
RECURSIVE ArraySort(_)
ArraySort(arr) ==
  IF arr = <<>> THEN <<>>
  ELSE Insert(ArraySort(SubSeq(arr, 1, Len(arr) - 1)), arr[Len(arr)])

\* Mutant: #sort leaves the set in insertion order.
CacheManagement_sort_none(set) == set

CacheManagement_sort(set) == NewSet(ArraySort(set))

\* Mutant: add keeps only the newly fetched values.
CacheManagement_add_replace(set, fetchedArray) ==
  CacheManagement_sort(NewSet(fetchedArray))

CacheManagement_add(set, fetchedArray) ==
  CacheManagement_sort(NewSet(set \o fetchedArray))

\* value.toLowerCase() throws a TypeError on a value that is not a string.
CacheManagement_search_throws(set) ==
  \E i \in DOMAIN set : set[i].t # "str"

\* Mutant: search compares the values as they are, without toLowerCase.
RECURSIVE CacheManagement_search_caseSensitive(_, _)
CacheManagement_search_caseSensitive(set, query) ==
  IF set = <<>> THEN <<>>
  ELSE LET results ==
             CacheManagement_search_caseSensitive(SubSeq(set, 1, Len(set) - 1), query)
           value   == set[Len(set)]
       IN  IF startsWith(value.s, query) THEN Append(results, value) ELSE results

RECURSIVE CacheManagement_search(_, _)
CacheManagement_search(set, query) ==
  IF set = <<>> THEN <<>>
  ELSE LET results == CacheManagement_search(SubSeq(set, 1, Len(set) - 1), query)
           value   == set[Len(set)]
       IN  IF startsWith(toLowerCase(value.s), toLowerCase(query))
             THEN Append(results, value)
             ELSE results

cache_new == <<>>

-----------------------------------------------------------------------------
(* The environment: what the user types and what the server answers *)

\* Texts typed into the input field, which is empty at first: " ", "a", " a ".
InputValues == { <<32>>, <<97>>, <<32, 97, 32>> }

\* Strings in a JSON array of the server: "A" and "B".
Items == { Str(<<65>>), Str(<<66>>) }

RECURSIVE SeqsUpTo(_, _)
SeqsUpTo(S, n) ==
  IF n = 0 THEN { <<>> }
  ELSE LET shorter == SeqsUpTo(S, n - 1)
       IN  shorter \cup { Append(q, x) : q \in shorter, x \in S }

\* A JavaScript value that search can receive from fetchData.  k is its
\* kind; v is what iterating it yields (the elements of an array, the
\* one-character strings of a string), the empty sequence for the others.
\*   "array"  a JSON array of strings, or the array [1] of a number
\*   "string" a JSON string ("", "Ba")
\*   "null"   JSON null
\*   "object" an object, number or boolean
\*   "objlen" an object with a numeric "length" property greater than 0
\*   "error"  the Error instance that the catch of fetchData returns
Value(k, v) == [k |-> k, v |-> v]

Bodies ==
  { Value("array", a) : a \in SeqsUpTo(Items, MaxRespLen) }
    \cup { Value("array", << Num(<<49>>) >>) }
    \cup { Value("string", <<>>), Value("string", << Str(<<66>>), Str(<<97>>) >>) }
    \cup { Value("null", <<>>), Value("object", <<>>), Value("objlen", <<>>) }

ErrorValue == Value("error", <<>>)

NoValue == Value("none", <<>>)

-----------------------------------------------------------------------------
(* showErrorMessage, fetchData, fillOptions, search *)

MsgServerDown == "fetchData: The server is down or unreachable"

MsgUnavailable == "Server may be unavailable. Please try again later."

showErrorMessage(msg) == msg

\* Mutant: the catch of fetchData returns the error without a message.
fetchData_noMessage(outcome, data, msg) ==
  IF outcome = "body"
    THEN [ret |-> data, msg |-> msg]
    ELSE [ret |-> ErrorValue, msg |-> msg]

\* What one call of fetchData comes to.  `outcome` is how the remote call
\* ended: "reject" (fetch rejects), "notok" (response.ok is false),
\* "badjson" (response.json() rejects) or "body" with the parsed `data`.
\* The result is the value returned and the text of the error message area.
fetchData(outcome, data, msg) ==
  IF outcome = "body"
    THEN [ret |-> data, msg |-> msg]
    ELSE [ret |-> ErrorValue, msg |-> showErrorMessage(MsgServerDown)]

\* names.length > 0; reading .length of null throws a TypeError.
LengthThrows(names) == names.k = "null"

\* Mutant of the test names.length > 0: names.length >= 0.
LengthPositive_orZero(names) ==
  CASE names.k \in {"array", "string"} -> Len(names.v) >= 0
    [] names.k = "objlen"               -> TRUE
    [] OTHER                            -> FALSE

LengthPositive(names) ==
  CASE names.k \in {"array", "string"} -> Len(names.v) > 0
    [] names.k = "objlen"               -> TRUE
    [] OTHER                            -> FALSE

\* [...fetchedArray] throws a TypeError on a value that is not iterable.
SpreadThrows(names) == names.k \notin {"array", "string"}

\* option.value = item
OptionValues(set) == [i \in DOMAIN set |-> set[i].s]

fillOptions(set, opts) ==
  IF Len(set) > 0 THEN OptionValues(set) ELSE opts

\* Mutant: fillOptions() is called before cache.add(names).
searchResume_fillFirst(names, set, opts, msg) ==
  IF LengthThrows(names)
    THEN [set |-> set, opts |-> opts, msg |-> showErrorMessage(MsgUnavailable),
          added |-> FALSE, fill |-> FALSE, caught |-> TRUE]
  ELSE IF ~LengthPositive(names)
    THEN [set |-> set, opts |-> opts, msg |-> msg,
          added |-> FALSE, fill |-> FALSE, caught |-> FALSE]
  ELSE IF SpreadThrows(names)
    THEN [set |-> set, opts |-> fillOptions(set, opts),
          msg |-> showErrorMessage(MsgUnavailable),
          added |-> FALSE, fill |-> TRUE, caught |-> TRUE]
  ELSE [set |-> CacheManagement_add(set, names.v), opts |-> fillOptions(set, opts),
        msg |-> msg, added |-> TRUE, fill |-> TRUE, caught |-> FALSE]

\* Mutant: the catch clause of search empties the cache.
searchResume_clearOnCatch(names, set, opts, msg) ==
  IF LengthThrows(names)
    THEN [set |-> <<>>, opts |-> opts, msg |-> showErrorMessage(MsgUnavailable),
          added |-> FALSE, fill |-> FALSE, caught |-> TRUE]
  ELSE IF ~LengthPositive(names)
    THEN [set |-> set, opts |-> opts, msg |-> msg,
          added |-> FALSE, fill |-> FALSE, caught |-> FALSE]
  ELSE IF SpreadThrows(names)
    THEN [set |-> <<>>, opts |-> opts, msg |-> showErrorMessage(MsgUnavailable),
          added |-> FALSE, fill |-> FALSE, caught |-> TRUE]
  ELSE LET merged == CacheManagement_add(set, names.v)
       IN  [set |-> merged, opts |-> fillOptions(merged, opts), msg |-> msg,
            added |-> TRUE, fill |-> TRUE, caught |-> FALSE]

\* search from the return of `await fetchData(val)` to its end (lines 88-97):
\* the new cache, option list and error message, whether fillOptions was
\* called and whether the catch clause ran.
searchResume(names, set, opts, msg) ==
  IF LengthThrows(names)
    THEN [set |-> set, opts |-> opts, msg |-> showErrorMessage(MsgUnavailable),
          added |-> FALSE, fill |-> FALSE, caught |-> TRUE]
  ELSE IF ~LengthPositive(names)
    THEN [set |-> set, opts |-> opts, msg |-> msg,
          added |-> FALSE, fill |-> FALSE, caught |-> FALSE]
  ELSE IF SpreadThrows(names)
    THEN [set |-> set, opts |-> opts, msg |-> showErrorMessage(MsgUnavailable),
          added |-> FALSE, fill |-> FALSE, caught |-> TRUE]
  ELSE LET merged == CacheManagement_add(set, names.v)
       IN  [set |-> merged, opts |-> fillOptions(merged, opts), msg |-> msg,
            added |-> TRUE, fill |-> TRUE, caught |-> FALSE]

\* Mutant: the value is used without trim().
searchVal_noTrim(value) == value

\* const val = e.target.value.trim()
searchVal(value) == trim(value)

\* Mutant: a match in the cache does not end search; the server is asked.
searchStart_noShortCircuit(value, set) ==
  LET val == searchVal(value)
      names == CacheManagement_search(set, val)
  IN  IF val = <<>>
        THEN [path |-> "empty", val |-> val, called |-> FALSE, names |-> <<>>]
      ELSE IF CacheManagement_search_throws(set)
        THEN [path |-> "threw", val |-> val, called |-> TRUE, names |-> <<>>]
      ELSE [path |-> "miss", val |-> val, called |-> TRUE, names |-> names]

\* search up to its first return or await (lines 76-88):
\*   "empty"  !val, return                 "threw"  cache.search threw
\*   "hit"    names.length > 0, return     "miss"   fetchData(val) is awaited
\* `called` says whether cache.search(val) was called, `names` is its result.
searchStart(value, set) ==
  LET val == searchVal(value)
      names == CacheManagement_search(set, val)
  IN  IF val = <<>>
        THEN [path |-> "empty", val |-> val, called |-> FALSE, names |-> <<>>]
      ELSE IF CacheManagement_search_throws(set)
        THEN [path |-> "threw", val |-> val, called |-> TRUE, names |-> <<>>]
      ELSE IF Len(names) > 0
        THEN [path |-> "hit", val |-> val, called |-> TRUE, names |-> names]
      ELSE [path |-> "miss", val |-> val, called |-> TRUE, names |-> names]

-----------------------------------------------------------------------------
(* getSelectedOption, enableBtnShowModal *)

AsciiWhiteSpace == {9, 10, 12, 13, 32}

\* HTMLOptionElement.text: ASCII white space stripped and collapsed.
RECURSIVE Collapse(_)
Collapse(s) ==
  IF s = <<>> THEN <<>>
  ELSE IF Head(s) \in AsciiWhiteSpace
    THEN IF Tail(s) # <<>> /\ Head(Tail(s)) \in AsciiWhiteSpace
           THEN Collapse(Tail(s))
           ELSE << 32 >> \o Collapse(Tail(s))
  ELSE << Head(s) >> \o Collapse(Tail(s))

OptionText(v) ==
  LET c == Collapse(v)
      a == IF c # <<>> /\ Head(c) = 32 THEN Tail(c) ELSE c
  IN  IF a # <<>> /\ a[Len(a)] = 32 THEN SubSeq(a, 1, Len(a) - 1) ELSE a

\* The text found among the options, or <<>> for undefined.
getSelectedOption(value, opts) ==
  LET val == trim(value)
  IN  IF val = <<>> THEN <<>>
      ELSE IF \E i \in DOMAIN opts : OptionText(opts[i]) = val THEN val
      ELSE <<>>

-----------------------------------------------------------------------------
(* debounce and the two listeners of DOMContentLoaded *)

DefaultWait == 250

BtnWait == 350

Wrappers == {"search", "enableBtnShowModal"}

\* input.addEventListener('keyup', debounce(search))
\* input.addEventListener("input", debounce(enableBtnShowModal,350))
Wait(w) == IF w = "search" THEN DefaultWait ELSE BtnWait

RECURSIVE GCD(_, _)
GCD(a, b) == IF b = 0 THEN a ELSE GCD(b, a % b)

\* The granularity of time: every delay is a multiple of it.
TickMs == GCD(DefaultWait, BtnWait)

NoTimer == [armed |-> FALSE, left |-> 0, ev |-> 0]

\* Mutant: a pending timer is kept as it is (no clearTimeout, no new timer).
debounce_keepPending(tmo, wait, event) ==
  IF tmo.armed THEN tmo ELSE [armed |-> TRUE, left |-> wait, ev |-> event]

\* Mutant: the timer is set without the delay.
debounce_noWait(tmo, wait, event) == [armed |-> TRUE, left |-> 0, ev |-> event]

\* The function debounce returns, called with `event`:
\* clearTimeout(timeout); timeout = setTimeout(() => func(event), wait)
debounce(tmo, wait, event) == [armed |-> TRUE, left |-> wait, ev |-> event]

TimerDue(w) == timeout[w].armed /\ timeout[w].left = 0

NoTimerDue == \A w \in Wrappers : ~TimerDue(w)

Min(a, b) == IF a < b THEN a ELSE b

\* History of the invocations of wrapper w.  A burst is a run of invocations
\* each less than Wait(w) after the one before; `since` is the time since the
\* last invocation (counted up to Wait(w)), `calls` the number of invocations
\* of the burst, `runs` the executions of the handler since the burst began,
\* `ranEv` the argument of the last of them, `age` the time since the first
\* invocation of the burst (kept until the handler runs, which notes it in
\* `step`).  The events of a burst are numbered 1, 2, ... in order.
NoBurst == [calls |-> 0, since |-> 0, runs |-> 0, ranEv |-> 0, age |-> 0]

InBurst(w) == burst[w].calls > 0 /\ burst[w].since < Wait(w)

NextEvent(w) == IF InBurst(w) THEN burst[w].calls + 1 ELSE 1

Invoked(w) ==
  IF InBurst(w)
    THEN [burst[w] EXCEPT !.calls = @ + 1, !.since = 0]
    ELSE [calls |-> 1, since |-> 0, runs |-> 0, ranEv |-> 0, age |-> 0]

Ran(w, event) ==
  [burst[w] EXCEPT !.runs = Min(@ + 1, 2), !.ranEv = event, !.age = 0]

LowerUnit(c) == IF c \in 65..90 THEN c + 32 ELSE c

\* v starts with q, letter case apart.
PrefixIgnoringCase(v, q) ==
  Len(q) <= Len(v) /\ \A i \in 1..Len(q) : LowerUnit(v[i]) = LowerUnit(q[i])

\* Some string of `values` starts with q, letter case apart.
HasMatch(values, q) ==
  \E i \in DOMAIN values :
    values[i].t = "str" /\ PrefixIgnoringCase(values[i].s, q)

StepRec(op, path) ==
  [op |-> op, path |-> path, ev |-> 0, age |-> 0, late |-> FALSE,
   val |-> <<>>, called |-> FALSE,
   results |-> <<>>, names |-> NoValue, added |-> FALSE, fill |-> FALSE,
   caught |-> FALSE, before |-> <<>>]

-----------------------------------------------------------------------------
(* The state machine *)

\* The page as loaded: an empty input field, option list and message area,
\* the button disabled, the cache just constructed, no timer set.
Init ==
  /\ inputValue = <<>>
  /\ cache = cache_new
  /\ options = <<>>
  /\ errorMessage = ""
  /\ btnDisabled = TRUE
  /\ selectedOption = <<>>
  /\ timeout = [w \in Wrappers |-> NoTimer]
  /\ inflight = <<>>
  /\ burst = [w \in Wrappers |-> NoBurst]
  /\ events = 0
  /\ everAdded = {}
  /\ mergedFor = {}
  /\ step = StepRec("init", "")

\* Mutant: the two wrappers share one timer.
Invoke_shared(w) ==
  /\ NoTimerDue
  /\ events < MaxEvents
  /\ events' = events + 1
  /\ timeout' = [v \in Wrappers |->
                   IF v = w THEN debounce(timeout[v], Wait(w), NextEvent(w))
                            ELSE NoTimer]
  /\ burst' = [burst EXCEPT ![w] = Invoked(w)]

\* A wrapper is called by its listener.
Invoke(w) ==
  /\ NoTimerDue
  /\ events < MaxEvents
  /\ events' = events + 1
  /\ timeout' = [timeout EXCEPT ![w] = debounce(@, Wait(w), NextEvent(w))]
  /\ burst' = [burst EXCEPT ![w] = Invoked(w)]

\* Mutant: a keystroke drops the requests in flight.
KeyUp_cancels ==
  /\ Invoke("search")
  /\ inflight' = <<>>
  /\ step' = [StepRec("keyup", "") EXCEPT !.ev = NextEvent("search")]
  /\ UNCHANGED << inputValue, cache, options, errorMessage, btnDisabled,
                  selectedOption, everAdded, mergedFor >>

\* A key is released in the input field: the keyup listener.
KeyUp ==
  /\ Invoke("search")
  /\ step' = [StepRec("keyup", "") EXCEPT !.ev = NextEvent("search")]
  /\ UNCHANGED << inputValue, cache, options, errorMessage, btnDisabled,
                  selectedOption, inflight, everAdded,
                  mergedFor >>

\* The user changes the text of the input field: the input listener.
InputEvent(v) ==
  /\ v # inputValue
  /\ inputValue' = v
  /\ Invoke("enableBtnShowModal")
  /\ step' = [StepRec("input", "") EXCEPT !.ev = NextEvent("enableBtnShowModal")]
  /\ UNCHANGED << cache, options, errorMessage, btnDisabled,
                  selectedOption, inflight, everAdded,
                  mergedFor >>

\* TickMs of time pass.
Tick ==
  /\ NoTimerDue
  /\ \E w \in Wrappers : timeout[w].armed \/ InBurst(w)
  /\ timeout' = [w \in Wrappers |->
                   IF timeout[w].armed
                     THEN [timeout[w] EXCEPT !.left = @ - TickMs]
                     ELSE timeout[w]]
  /\ burst' = [w \in Wrappers |->
                 IF burst[w].calls > 0
                   THEN [burst[w] EXCEPT
                           !.since = Min(@ + TickMs, Wait(w)),
                           !.age = IF InBurst(w) THEN @ + TickMs ELSE @]
                   ELSE burst[w]]
  /\ step' = StepRec("tick", "")
  /\ UNCHANGED << inputValue, cache, options, errorMessage, btnDisabled,
                  selectedOption, inflight, events, everAdded,
                  mergedFor >>

\* The timer of the search wrapper runs () => search(event).
RunSearch ==
  /\ TimerDue("search")
  /\ LET r == searchStart(inputValue, cache)
     IN  /\ inflight' = IF r.path = "miss"
                           THEN Append(inflight, [q |-> r.val, pc |-> "fetch",
                                                  late |-> FALSE])
                           ELSE inflight
         /\ step' = [StepRec("search", r.path) EXCEPT
                       !.ev = timeout["search"].ev,
                       !.age = burst["search"].age, !.val = r.val,
                       !.called = r.called, !.results = r.names]
  /\ timeout' = [timeout EXCEPT !["search"] = NoTimer]
  /\ burst' = [burst EXCEPT !["search"] = Ran("search", timeout["search"].ev)]
  /\ UNCHANGED << inputValue, cache, options, errorMessage, btnDisabled,
                  selectedOption, events, everAdded,
                  mergedFor >>

\* The timer of the other wrapper runs () => enableBtnShowModal(event).
RunEnableBtnShowModal ==
  /\ TimerDue("enableBtnShowModal")
  /\ LET found == getSelectedOption(inputValue, options)
     IN  /\ btnDisabled' = (found = <<>>)
         /\ selectedOption' = found
  /\ timeout' = [timeout EXCEPT !["enableBtnShowModal"] = NoTimer]
  /\ burst' = [burst EXCEPT !["enableBtnShowModal"] =
                 Ran("enableBtnShowModal", timeout["enableBtnShowModal"].ev)]
  /\ step' = [StepRec("enableBtnShowModal", "") EXCEPT
                !.ev = timeout["enableBtnShowModal"].ev,
                !.age = burst["enableBtnShowModal"].age]
  /\ UNCHANGED << inputValue, cache, options, errorMessage, inflight, events,
                  everAdded,
                  mergedFor >>

Remove(q, i) == SubSeq(q, 1, i - 1) \o SubSeq(q, i + 1, Len(q))

\* Request i leaves the requests in flight; the requests issued before it that
\* are still in flight are noted as `late`: an answer to a later request came
\* before theirs.
Overtake(q, i) ==
  Remove([j \in DOMAIN q |-> IF j < i THEN [q[j] EXCEPT !.late = TRUE] ELSE q[j]],
         i)

\* Mutant: a request that failed is sent again.
Settle_retry(i, outcome, data) ==
  LET f == fetchData(outcome, data, errorMessage)
      r == searchResume(f.ret, cache, options, f.msg)
  IN  /\ cache' = r.set
      /\ options' = r.opts
      /\ errorMessage' = r.msg
      /\ everAdded' = IF r.added THEN everAdded \cup Range(f.ret.v) ELSE everAdded
      /\ inflight' = IF outcome = "body"
                       THEN Overtake(inflight, i)
                       ELSE Append(Overtake(inflight, i),
                                   [inflight[i] EXCEPT !.pc = "fetch"])
      /\ step' = [StepRec("settle", outcome) EXCEPT
                    !.val = inflight[i].q, !.late = inflight[i].late,
                    !.names = f.ret, !.added = r.added,
                    !.fill = r.fill, !.caught = r.caught]
      /\ mergedFor' = IF r.added
                        THEN mergedFor \cup
                               { [q |-> inflight[i].q,
                                  match |-> HasMatch(f.ret.v, inflight[i].q)] }
                        ELSE mergedFor
      /\ UNCHANGED << inputValue, btnDisabled, selectedOption, timeout, burst,
                      events >>

\* fetchData returns and the suspended search runs to its end.
Settle(i, outcome, data) ==
  LET f == fetchData(outcome, data, errorMessage)
      r == searchResume(f.ret, cache, options, f.msg)
  IN  /\ cache' = r.set
      /\ options' = r.opts
      /\ errorMessage' = r.msg
      /\ everAdded' = IF r.added THEN everAdded \cup Range(f.ret.v) ELSE everAdded
      /\ inflight' = Overtake(inflight, i)
      /\ step' = [StepRec("settle", outcome) EXCEPT
                    !.val = inflight[i].q, !.late = inflight[i].late,
                    !.names = f.ret, !.added = r.added,
                    !.fill = r.fill, !.caught = r.caught]
      /\ mergedFor' = IF r.added
                        THEN mergedFor \cup
                               { [q |-> inflight[i].q,
                                  match |-> HasMatch(f.ret.v, inflight[i].q)] }
                        ELSE mergedFor
      /\ UNCHANGED << inputValue, btnDisabled, selectedOption, timeout, burst,
                      events >>

\* `await fetch(URL, ...)` of request i ends: it rejects, or it gives a
\* response whose ok is false, or one whose body is then read.
FetchSettles(i, outcome) ==
  /\ i \in DOMAIN inflight
  /\ inflight[i].pc = "fetch"
  /\ IF outcome = "ok"
       THEN /\ inflight' = [inflight EXCEPT ![i].pc = "json"]
            /\ step' = [StepRec("response", "ok") EXCEPT !.val = inflight[i].q]
            /\ UNCHANGED << inputValue, cache, options, errorMessage, btnDisabled,
                            selectedOption, timeout, burst, events, everAdded,
                  mergedFor >>
       ELSE Settle(i, outcome, NoValue)

\* `await response.json()` of request i ends: it rejects or gives `data`.
JsonSettles(i, outcome, data) ==
  /\ i \in DOMAIN inflight
  /\ inflight[i].pc = "json"
  /\ Settle(i, outcome, data)

Next ==
  \/ KeyUp
  \/ \E v \in InputValues : InputEvent(v)
  \/ Tick
  \/ RunSearch
  \/ RunEnableBtnShowModal
  \/ \E i \in DOMAIN inflight, o \in {"reject", "notok", "ok"} : FetchSettles(i, o)
  \/ \E i \in DOMAIN inflight : JsonSettles(i, "badjson", NoValue)
  \/ \E i \in DOMAIN inflight, d \in Bodies : JsonSettles(i, "body", d)

Spec == Init /\ [][Next]_vars

\* The transport answers and the event loop runs the continuation of an
\* await that has ended: while a request is in flight, some await ends.
FetchEnds == \E i \in DOMAIN inflight, o \in {"reject", "notok", "ok"} : FetchSettles(i, o)

JsonEnds ==
  \/ \E i \in DOMAIN inflight : JsonSettles(i, "badjson", NoValue)
  \/ \E i \in DOMAIN inflight, d \in Bodies : JsonSettles(i, "body", d)

LiveSpec == Spec /\ WF_vars(FetchEnds \/ JsonEnds)

-----------------------------------------------------------------------------
(* The cache class on its own: add and search applied to any arguments *)

\* The longest array given to one add.
MaxAddLen == 2

\* "A", "B", "a", "ab", "b" and the number 1.
CacheItems ==
  { Str(<<65>>), Str(<<66>>), Str(<<97>>), Str(<<97, 98>>), Str(<<98>>), Num(<<49>>) }

\* "a", "A", "b", "ab", "aB", "x".
Queries == { <<97>>, <<65>>, <<98>>, <<97, 98>>, <<97, 66>>, <<120>> }

CacheAdd(fetchedArray) ==
  /\ cache' = CacheManagement_add(cache, fetchedArray)
  /\ everAdded' = everAdded \cup Range(fetchedArray)
  /\ step' = [StepRec("add", "") EXCEPT !.names = Value("array", fetchedArray),
                                         !.added = TRUE]
  /\ UNCHANGED << inputValue, options, errorMessage, btnDisabled, selectedOption,
                  timeout, inflight, burst, events, mergedFor >>

CacheSearch(query) ==
  /\ step' = IF CacheManagement_search_throws(cache)
               THEN [StepRec("cacheSearch", "threw") EXCEPT
                       !.val = query, !.called = TRUE]
               ELSE [StepRec("cacheSearch", "") EXCEPT
                       !.val = query, !.called = TRUE,
                       !.results = CacheManagement_search(cache, query)]
  /\ UNCHANGED << inputValue, cache, options, errorMessage, btnDisabled,
                  selectedOption, timeout, inflight, burst, events, everAdded,
                  mergedFor >>

NextCache ==
  \/ \E a \in SeqsUpTo(CacheItems, MaxAddLen) : CacheAdd(a)
  \/ \E q \in Queries : CacheSearch(q)

SpecCache == Init /\ [][NextCache]_vars

-----------------------------------------------------------------------------
(* The merges of the answers of the server, in any order *)

\* Strings of the answers merged: "A", "B", "a", "ab".
MergeItems == { Str(<<65>>), Str(<<66>>), Str(<<97>>), Str(<<97, 98>>) }

\* The arrays of strings, not empty, that one answer can hold.
StringArrays == { a \in SeqsUpTo(MergeItems, MaxAddLen) : a # <<>> }

\* search merges an answer: cache.add(names); fillOptions().  `before` keeps
\* the cache as it was.
Merge(names) ==
  LET merged == CacheManagement_add(cache, names)
  IN  /\ cache' = merged
      /\ options' = fillOptions(merged, options)
      /\ everAdded' = everAdded \cup Range(names)
      /\ step' = [StepRec("merge", "") EXCEPT
                    !.names = Value("array", names), !.added = TRUE,
                    !.fill = TRUE, !.before = cache]
      /\ UNCHANGED << inputValue, errorMessage, btnDisabled, selectedOption,
                      timeout, inflight, burst, events, mergedFor >>

NextMerge == \E names \in StringArrays : Merge(names)

SpecMerge == Init /\ [][NextMerge]_vars

-----------------------------------------------------------------------------
(* Properties *)

\* The handler search runs in this step.
SearchRuns == TimerDue("search") /\ step'.op = "search"

\* fetchData returned in this step and the suspended search ran to its end.
Settled(outcomes) == step'.op = "settle" /\ step'.path \in outcomes

AllStrings(v) == \A i \in DOMAIN v : v[i].t = "str"

NoDuplicates(q) == \A i, j \in DOMAIN q : q[i] = q[j] => i = j

\* a is not greater than b in the order of the code units.
LexLeq(a, b) ==
  \/ Len(a) <= Len(b) /\ \A i \in 1..Len(a) : a[i] = b[i]
  \/ \E k \in 1..Min(Len(a), Len(b)) :
        a[k] < b[k] /\ \A i \in 1..(k - 1) : a[i] = b[i]

Position(q, x) == CHOOSE i \in DOMAIN q : q[i] = x

\* C1: when search runs with a trimmed value that is not empty and
\* cache.search(value) returns at least one entry, that run issues no fetch
\* and leaves the cache, the option list and the error message as they were.
C1_CacheHitShortCircuit ==
  [][ ( /\ SearchRuns
        /\ trim(inputValue) # <<>>
        /\ ~CacheManagement_search_throws(cache)
        /\ Len(CacheManagement_search(cache, trim(inputValue))) >= 1 )
      => ( /\ inflight' = inflight
           /\ cache' = cache
           /\ options' = options
           /\ errorMessage' = errorMessage ) ]_vars

\* search has just run and found the typed value in the cache.
C1_Witness ==
  /\ step.op = "search"
  /\ step.path = "hit"
  /\ Len(step.results) >= 1
  /\ step.val # <<>>

\* C2: in a burst of invocations of one debounced wrapper, each less than
\* `wait` after the one before, the handler does not run while the burst
\* goes on, and once `wait` has passed after the last invocation it has run
\* exactly once, with the argument of the last invocation.
C2_DebounceCollapsing ==
  \A w \in Wrappers :
    burst[w].calls >= 1 =>
      /\ burst[w].since < Wait(w) => burst[w].runs = 0
      /\ (burst[w].since = Wait(w) /\ ~TimerDue(w)) =>
            (burst[w].runs = 1 /\ burst[w].ranEv = burst[w].calls)

\* search has just run once for a burst of two keyup events.
C2_Witness ==
  /\ step.op = "search"
  /\ burst["search"].calls >= 2
  /\ burst["search"].runs = 1
  /\ step.ev = burst["search"].calls

\* C3: when the remote call rejects or answers with a status that is not a
\* success, the error message area holds the fixed message of fetchData,
\* the cache is what it was and the option list is not rebuilt.
C3_FetchFailureIsolation ==
  [][ Settled({"reject", "notok"})
      => ( /\ errorMessage' = MsgServerDown
           /\ cache' = cache
           /\ options' = options
           /\ ~step'.added
           /\ ~step'.fill ) ]_vars

\* A request has just failed while the cache held entries.
C3_Witness ==
  /\ step.op = "settle"
  /\ step.path \in {"reject", "notok"}
  /\ cache # <<>>
  /\ errorMessage = MsgServerDown

\* C4: after any sequence of add calls the cache holds every value that was
\* ever passed in, each exactly once, and nothing else.
C4_DedupInvariant ==
  /\ Range(cache) = everAdded
  /\ NoDuplicates(cache)

\* add has just been given the same value twice in one call, with values
\* already cached.
C4_Witness ==
  /\ step.op = "add"
  /\ Len(step.names.v) = 2
  /\ step.names.v[1] = step.names.v[2]
  /\ Len(cache) >= 2

\* C5: iterating the cache yields its entries in non-decreasing order of
\* their code units (case-sensitive), in every state.
C5_SortInvariant ==
  \A i, j \in DOMAIN cache : i < j => LexLeq(cache[i].s, cache[j].s)

\* add has just been given two values in decreasing order, and the cache
\* holds three or more entries.
C5_Witness ==
  /\ step.op = "add"
  /\ Len(step.names.v) = 2
  /\ ~LexLeq(step.names.v[1].s, step.names.v[2].s)
  /\ Len(cache) >= 3

\* C6: search(query) returns exactly the entries whose value starts with the
\* query, letter case apart, each once and in the order of the cache (the
\* empty sequence when there is none).
C6_PrefixSearch ==
  (step.op = "cacheSearch" /\ step.path # "threw") =>
    /\ Range(step.results) =
         { x \in Range(cache) : PrefixIgnoringCase(x.s, step.val) }
    /\ NoDuplicates(step.results)
    /\ \A i, j \in DOMAIN step.results :
         i < j => Position(cache, step.results[i]) < Position(cache, step.results[j])

\* search has just returned some entries of the cache, one of them matching
\* the query only with the letter case ignored.
C6_Witness ==
  /\ step.op = "cacheSearch"
  /\ Len(step.results) >= 2
  /\ Len(step.results) < Len(cache)
  /\ \E i \in DOMAIN step.results : ~startsWith(step.results[i].s, step.val)

\* C7: when the fetch after a miss gives a non-empty sequence of strings,
\* the same step merges all of them into the cache and then rebuilds the
\* option list, which equals the updated cache in the order of the cache.
C7_MergeThenRebuild ==
  [][ ( /\ Settled({"body"})
        /\ step'.names.k = "array"
        /\ Len(step'.names.v) >= 1
        /\ AllStrings(step'.names.v) )
      => ( /\ step'.added
           /\ step'.fill
           /\ Range(cache') = Range(cache) \cup Range(step'.names.v)
           /\ Len(options') = Len(cache')
           /\ \A i \in DOMAIN cache' : options'[i] = cache'[i].s ) ]_vars

\* An array of two strings has just been merged and the option list rebuilt
\* from a cache of two or more entries.
C7_Witness ==
  /\ step.op = "settle"
  /\ step.path = "body"
  /\ step.names.k = "array"
  /\ Len(step.names.v) = 2
  /\ AllStrings(step.names.v)
  /\ step.fill
  /\ Len(cache) >= 2
  /\ Len(options) = Len(cache)

\* C8: when the fetch gives an empty sequence, the cache is unchanged, the
\* option list is not rebuilt and no error message is set.
C8_EmptyResultNoOp ==
  [][ ( /\ Settled({"body"})
        /\ step'.names = Value("array", <<>>) )
      => ( /\ cache' = cache
           /\ options' = options
           /\ errorMessage' = errorMessage
           /\ ~step'.added
           /\ ~step'.fill ) ]_vars

\* An empty array has just been received while the cache held entries.
C8_Witness ==
  /\ step.op = "settle"
  /\ step.path = "body"
  /\ step.names = Value("array", <<>>)
  /\ cache # <<>>

\* C9: when search runs and the value is empty after trimming, it calls no
\* cache.search, issues no fetch, rebuilds nothing and changes neither the
\* cache nor the error message; cache.search is never called with an empty
\* query.
C9_EmptyQueryNoOp ==
  /\ [][ (SearchRuns /\ trim(inputValue) = <<>>)
         => ( /\ ~step'.called
              /\ inflight' = inflight
              /\ ~step'.fill
              /\ cache' = cache
              /\ options' = options
              /\ errorMessage' = errorMessage ) ]_vars
  /\ [](step.called => step.val # <<>>)

\* search has just run on a value made of white space only.
C9_Witness ==
  /\ step.op = "search"
  /\ step.path = "empty"
  /\ inputValue # <<>>
  /\ ~step.called

\* C10: whatever the remote call gave, no execution of search ends with an
\* exception that nothing catches.
C10_NoExceptionEscapes ==
  ~(step.op = "search" /\ step.path = "threw")

\* C11: after any sequence of runs of search, when the last one ended
\* without a failure (a hit in the cache, or a fetch whose result was merged)
\* the error message area is empty, also after an earlier failure.
C11_ErrorMessageCleared ==
  ( \/ (step.op = "search" /\ step.path = "hit")
    \/ (step.op = "settle" /\ step.path = "body" /\ step.added) )
  => errorMessage = ""

\* C12 as claimed: once the result of a fetch for q has been merged into the
\* cache, every later run of search for q issues no fetch (it ends at
\* cache.search), whatever strings the server returned.
C12_NoRepeatedFetch ==
  [][ (SearchRuns /\ \E m \in mergedFor : m.q = trim(inputValue))
      => (inflight' = inflight /\ step'.path \in {"hit", "threw"}) ]_vars

\* C12 as amended: once the result of a fetch for q has been merged and one
\* of its strings starts with q (letter case apart), no later run of search
\* for q issues a fetch: it is a hit in the cache, or cache.search throws.
C12_NoRepeatedFetchOfMatched ==
  [][ (SearchRuns /\ \E m \in mergedFor : m.q = trim(inputValue) /\ m.match)
      => (inflight' = inflight /\ step'.path \in {"hit", "threw"}) ]_vars

\* search has just found in the cache a value fetched earlier for the same
\* query.
C12_Witness ==
  /\ step.op = "search"
  /\ step.path = "hit"
  /\ \E m \in mergedFor : m.q = step.val /\ m.match

\* C13: a pending call of a debounced wrapper is always the one of the most
\* recent invocation, due `wait` after it (each invocation cancels the call
\* scheduled before), and the handler runs only when exactly `wait` has
\* passed since the most recent invocation.
C13_QuietPeriod ==
  \A w \in Wrappers :
    /\ timeout[w].armed =>
         /\ burst[w].calls >= 1
         /\ timeout[w].ev = burst[w].calls
         /\ timeout[w].left = Wait(w) - burst[w].since
    /\ step.op = w =>
         /\ burst[w].since = Wait(w)
         /\ burst[w].runs = 1
         /\ ~timeout[w].armed

\* search has just run, once, 350 after the first of three keyup events of
\* which the last came 100 after the first.
C13_Witness ==
  /\ step.op = "search"
  /\ burst["search"].calls = 3
  /\ burst["search"].runs = 1
  /\ step.age = 100 + DefaultWait

\* The values of the requests in flight, in the order they were issued.
Requests(q) == [j \in DOMAIN q |-> q[j].q]

\* C14: a run of search issues at most one request, and that request carries
\* the trimmed value of the input field; when fetchData returns, its request
\* leaves the requests in flight and none is issued in its place; no other
\* step issues a request.
C14_NoRetry ==
  [][ IF SearchRuns
        THEN \/ inflight' = inflight
             \/ /\ SubSeq(inflight', 1, Len(inflight)) = inflight
                /\ Requests(inflight') =
                     Append(Requests(inflight), trim(inputValue))
                /\ inflight'[Len(inflight')].pc = "fetch"
        ELSE IF step'.op = "settle"
               THEN \E i \in DOMAIN inflight :
                      Requests(inflight') = Remove(Requests(inflight), i)
               ELSE Requests(inflight') = Requests(inflight) ]_vars

\* After a request failed, search has run again on a value with spaces
\* around it and issued the one request in flight, for the trimmed value.
C14_Witness ==
  /\ step.op = "search"
  /\ step.path = "miss"
  /\ errorMessage = MsgServerDown
  /\ Len(inflight) = 1
  /\ inflight[1].q = trim(inputValue)
  /\ inputValue # trim(inputValue)

\* fetchData or search showed an error message in this step.
Reported ==
  /\ step'.path \in {"reject", "notok", "badjson"} \/ step'.caught
  /\ errorMessage' \in {MsgServerDown, MsgUnavailable}

\* No step but the return of its own fetchData takes a request out of the
\* requests in flight, and that return takes out one.
NeverCancelled ==
  IF step'.op = "settle"
    THEN \E i \in DOMAIN inflight :
           Requests(inflight') = Remove(Requests(inflight), i)
    ELSE /\ Len(inflight') >= Len(inflight)
         /\ \A j \in DOMAIN inflight : inflight'[j].q = inflight[j].q

\* C15 as stated: no keystroke or other step cancels a request in flight;
\* the handling of every request ends by a merge into the cache or by an
\* error message; with a transport that answers and a fair event loop every
\* request issued is handled in the end.
C15_MergedOrReported ==
  /\ [][ /\ NeverCancelled
         /\ step'.op = "settle" => (step'.added \/ Reported) ]_vars
  /\ (inflight # <<>>) ~> (inflight = <<>>)

\* C15, amended: as above, where the handling of a request ends by a merge
\* into the cache, by an error message, or, for an answer without a
\* positive length, with the cache, the option list and the message as
\* they were.
C15_NeverCancelled ==
  /\ [][ /\ NeverCancelled
         /\ step'.op = "settle" =>
              \/ step'.added
              \/ Reported
              \/ /\ ~LengthPositive(step'.names)
                 /\ cache' = cache
                 /\ options' = options
                 /\ errorMessage' = errorMessage ]_vars
  /\ (inflight # <<>>) ~> (inflight = <<>>)

\* Two requests are in flight at once: the second was issued by a keystroke
\* that came while the first was in flight.
C15_Witness ==
  /\ Len(inflight) >= 2
  /\ step.op = "search"
  /\ step.path = "miss"

\* C16: the cache changes only in the step in which search, after fetchData
\* returned an answer of positive length, calls cache.add; keystrokes, timers,
\* runs of search up to the fetch (empty value, cache hit, cache miss),
\* enableBtnShowModal and failed fetches leave its entries and their order
\* as they were.
C16_CacheFrame ==
  [][ cache' # cache =>
        /\ step'.op = "settle"
        /\ step'.path = "body"
        /\ step'.added
        /\ LengthPositive(step'.names)
        /\ cache' = CacheManagement_add(cache, step'.names.v) ]_vars

\* The catch clause of search has run with entries in the cache, which are
\* still there.
C16_Witness ==
  /\ step.op = "settle"
  /\ step.caught
  /\ ~step.added
  /\ Len(cache) >= 1

\* C17: after fetchData has returned from a fetch that rejected, a response
\* that was not ok, a body that could not be parsed, or a parsed body that is
\* not an array or a string (null or an object), the message area holds the
\* message "fetchData: The server is down or unreachable".
C17_UniformFailureMessage ==
  ( /\ step.op = "settle"
    /\ \/ step.path \in {"reject", "notok", "badjson"}
       \/ step.path = "body" /\ step.names.k \in {"null", "object", "objlen"} )
  => errorMessage = MsgServerDown

\* C18: the two wrappers have a timer each.  A call of one wrapper and the
\* run of its handler leave the timer of the other wrapper as it was, and
\* whatever the other wrapper did meanwhile, the handler of a wrapper runs
\* when its own wait has passed since its own last invocation, once, with
\* the argument of that invocation.
C18_IndependentWrappers ==
  /\ [][ /\ step'.op \in {"keyup", "search"} =>
              timeout'["enableBtnShowModal"] = timeout["enableBtnShowModal"]
         /\ step'.op \in {"input", "enableBtnShowModal"} =>
              timeout'["search"] = timeout["search"] ]_vars
  /\ [](\A w \in Wrappers :
          step.op = w =>
            /\ step.ev = burst[w].calls
            /\ burst[w].since = Wait(w)
            /\ burst[w].runs = 1)

\* A key was released while the timer of the other wrapper was running; both
\* timers are set, each with its own time left.
C18_Witness ==
  /\ step.op = "keyup"
  /\ timeout["search"].armed
  /\ timeout["search"].left = DefaultWait
  /\ timeout["enableBtnShowModal"].armed
  /\ timeout["enableBtnShowModal"].left < BtnWait

\* C19: an entry of the cache stays in it in every later state: no step
\* removes an entry, and the merge of an answer that comes after the answer
\* to a later request keeps every entry that was there.
C19_MonotonicCache ==
  [][ /\ Range(cache) \subseteq Range(cache')
      /\ Len(cache') >= Len(cache) ]_vars

\* The answer to an older request has been merged after the answer to a
\* later request, and the entries of both are in the cache.
C19_Witness ==
  /\ step.op = "settle"
  /\ step.late
  /\ step.added
  /\ \E x \in Range(cache) : x \notin Range(step.names.v)
  /\ Range(step.names.v) \subseteq Range(cache)

\* C20: for arrays of strings A and B that are not empty, add(A) then add(B)
\* and add(B) then add(A) leave the same entries in the same order, and
\* add(A) a second time changes nothing.  A is the array just merged into
\* the cache `step.before`, B is any array.
C20_MergeOrderIndependence ==
  step.op = "merge"
  => /\ \A B \in StringArrays :
          CacheManagement_add(cache, B) =
            CacheManagement_add(CacheManagement_add(step.before, B), step.names.v)
     /\ CacheManagement_add(cache, step.names.v) = cache

\* add(A) has put an entry of A before an entry that was in the cache: the
\* order of the entries is not the order of their arrival.
C20_Witness ==
  /\ step.op = "merge"
  /\ Len(step.before) >= 1
  /\ cache[1] \notin Range(step.before)
  /\ cache[Len(cache)] \in Range(step.before)

====
